---- MODULE Spec2Model ----
(***************************************************************************)
(* A model of the PostHog connector: run_posthog_sql,                      *)
(* list_posthog_dashboards and get_posthog_insight.                        *)
(*                                                                         *)
(* JSON values are tagged records.  An object is an ordered sequence of    *)
(* <<key, value>> pairs, so that an absent key, a key holding null and the *)
(* insertion order of keys are all represented.  A JavaScript string is    *)
(* either Str(s), an atomic string, or Text(tokens), a string given by the *)
(* sequence of its lexemes (used where the code scans or assembles text).  *)
(***************************************************************************)
EXTENDS Integers, Sequences, FiniteSets, TLC

VARIABLES env, inv, fnIn, fnOut

vars == <<env, inv, fnIn, fnOut>>

(***************************************************************************)
(* JSON / JavaScript values                                                *)
(***************************************************************************)
Undefined == [k |-> "undefined"]
Null == [k |-> "null"]
Num(n) == [k |-> "number", n |-> n]
Str(s) == [k |-> "string", s |-> s]
Text(tokens) == [k |-> "string", t |-> tokens]
Bool(b) == [k |-> "boolean", b |-> b]
Arr(s) == [k |-> "array", a |-> s]
Obj(pairs) == [k |-> "object", o |-> pairs]

Range(s) == {s[i] : i \in DOMAIN s}

SeqsUpTo(S, n) == UNION {[1..m -> S] : m \in 0..n}

\* An upstream JSON object: the keys whose value is given as Undefined are
\* not sent at all.
MkObj(pairs) == Obj(SelectSeq(pairs, LAMBDA p : p[2] # Undefined))

IsText(x) == x.k = "string" /\ "t" \in DOMAIN x

\* typeof x
TypeOf(x) == IF x.k \in {"array", "null"} THEN "object" ELSE x.k

\* Array.isArray(x)
IsArray(x) == x.k = "array"

\* x == null, as `??`, `?.` and `!= null` test it
Nullish(x) == x.k \in {"undefined", "null"}

\* a ?? b
CoalesceNoDefault(a, b) == a
Coalesce(a, b) == IF Nullish(a) THEN b ELSE a

\* the truthiness of x, as `if (x)`, `!x`, `x && y`, `x ? a : b` test it
Truthy(x) ==
  CASE x.k \in {"undefined", "null"} -> FALSE
    [] x.k = "boolean" -> x.b
    [] x.k = "number" -> x.n # 0
    [] x.k = "string" -> IF IsText(x) THEN x.t # <<>> ELSE x.s # ""
    [] OTHER -> TRUE

\* key in o
HasKey(o, key) == o.k = "object" /\ \E i \in 1..Len(o.o) : o.o[i][1] = key

\* o.key, for an o that is neither null nor undefined
Get(o, key) ==
  IF HasKey(o, key)
  THEN o.o[CHOOSE i \in 1..Len(o.o) : o.o[i][1] = key][2]
  ELSE Undefined

\* o?.key
OptGet(o, key) == IF Nullish(o) THEN Undefined ELSE Get(o, key)

\* The text of a string value.
RECURSIVE Concat(_)
Concat(tokens) ==
  IF tokens = <<>> THEN "" ELSE Head(tokens) \o Concat(Tail(tokens))

StrText(x) == IF IsText(x) THEN Concat(x.t) ELSE x.s

\* The lexemes of a string value; an atomic string is one lexeme.
Lexemes(x) == IF IsText(x) THEN x.t ELSE IF x.s = "" THEN <<>> ELSE <<x.s>>

\* JSON.stringify(x): the JSON text of x.  A property holding undefined is
\* omitted, an array element holding undefined is written as null.
RECURSIVE Render(_)
RECURSIVE RenderItems(_)
RECURSIVE RenderProps(_)
RenderItems(s) ==
  IF s = <<>> THEN ""
  ELSE Render(IF Head(s).k = "undefined" THEN Null ELSE Head(s))
       \o (IF Len(s) > 1 THEN "," ELSE "") \o RenderItems(Tail(s))
RenderProps(ps) ==
  IF ps = <<>> THEN ""
  ELSE "\"" \o Head(ps)[1] \o "\":" \o Render(Head(ps)[2])
       \o (IF Len(ps) > 1 THEN "," ELSE "") \o RenderProps(Tail(ps))
Render(x) ==
  CASE x.k = "null" -> "null"
    [] x.k = "boolean" -> IF x.b THEN "true" ELSE "false"
    [] x.k = "number" -> ToString(x.n)
    [] x.k = "string" -> "\"" \o StrText(x) \o "\""
    [] x.k = "array" -> "[" \o RenderItems(x.a) \o "]"
    [] x.k = "object" ->
         "{" \o RenderProps(SelectSeq(x.o, LAMBDA p : p[2].k # "undefined")) \o "}"

JSONstringify(x) == IF x.k = "undefined" THEN Undefined ELSE Str(Render(x))

(***************************************************************************)
(* run_posthog_sql: the mapping of the upstream response                   *)
(***************************************************************************)
\* (data.results ?? []).map(row => JSON.stringify(row))
stringifiedResults(data) ==
  LET results == Coalesce(Get(data, "results"), Arr(<<>>)).a
  IN Arr([i \in 1..Len(results) |-> JSONstringify(results[i])])

\* timings.find(t => t.k === 'query'): the first such entry, else undefined
findQueryTiming(timings) ==
  LET hit(i) == Get(timings.a[i], "k") = Str("query")
  IN IF \E i \in 1..Len(timings.a) : hit(i)
     THEN timings.a[CHOOSE i \in 1..Len(timings.a) :
                      hit(i) /\ \A j \in 1..(i - 1) : ~hit(j)]
     ELSE Undefined

\* data.timings?.find(t => t.k === 'query')?.t ?? null
executionTimeFalsy(data) ==
  LET timings == Get(data, "timings")
      entry == IF Nullish(timings) THEN Undefined
               ELSE findQueryTiming(timings)
      t == OptGet(entry, "t")
  IN IF Truthy(t) THEN t ELSE Null
executionTime(data) ==
  LET timings == Get(data, "timings")
      entry == IF Nullish(timings) THEN Undefined
               ELSE findQueryTiming(timings)
  IN Coalesce(OptGet(entry, "t"), Null)

PostHogQueryResponse(data) ==
  Obj(<< <<"columns", Coalesce(Get(data, "columns"), Arr(<<>>))>>,
         <<"results", stringifiedResults(data)>>,
         <<"hasMore", Coalesce(Get(data, "hasMore"), Bool(FALSE))>>,
         <<"limit", Coalesce(Get(data, "limit"), Null)>>,
         <<"offset", Coalesce(Get(data, "offset"), Null)>>,
         <<"isCached", Coalesce(Get(data, "is_cached"), Bool(FALSE))>>,
         <<"executionTime", executionTime(data)>> >>)

(***************************************************************************)
(* Errors                                                                  *)
(***************************************************************************)
\* new Error(message); message is the sequence of the pieces it is built of
Error(message) == [k |-> "error", name |-> "Error", message |-> message]

\* What the runtime throws: a property read on null or undefined, a call of
\* something that is no function, a body that is no JSON text, a transport
\* failure.
TypeError == [k |-> "error", name |-> "TypeError",
              message |-> <<"Cannot read properties of null">>]
SyntaxError == [k |-> "error", name |-> "SyntaxError",
                message |-> <<"Unexpected token in JSON">>]
FetchFailed == [k |-> "error", name |-> "TypeError",
                message |-> <<"fetch failed">>]

\* new sdk.UnprocessableContent(message)
UnprocessableContent(message) ==
  [k |-> "error", name |-> "UnprocessableContent", message |-> message]

\* error instanceof Error
InstanceOfError(e) == e.k = "error"

(***************************************************************************)
(* list_posthog_dashboards: the mapping of one dashboard                   *)
(***************************************************************************)
\* createdBy: x.created_by?.email ?? x.created_by?.first_name ?? null
createdByNameFirst(x) ==
  Coalesce(OptGet(Get(x, "created_by"), "first_name"),
           Coalesce(OptGet(Get(x, "created_by"), "email"), Null))
createdBy(x) ==
  Coalesce(OptGet(Get(x, "created_by"), "email"),
           Coalesce(OptGet(Get(x, "created_by"), "first_name"), Null))

InsightSummary(tile) ==
  LET insight == Get(tile, "insight")
  IN Obj(<< <<"id", Get(insight, "id")>>,
            <<"shortId", Coalesce(Get(insight, "short_id"), Null)>>,
            <<"name", Coalesce(Get(insight, "name"),
                               Coalesce(Get(insight, "derived_name"), Null))>>,
            <<"description", Coalesce(Get(insight, "description"), Null)>> >>)

\* (dashboard.tiles ?? []).filter(tile => tile.insight != null).map(...)
insightsUnfiltered(dashboard) ==
  LET tiles == Coalesce(Get(dashboard, "tiles"), Arr(<<>>))
      kept == SelectSeq(tiles.a, LAMBDA tile : Get(tile, "insight").k # "undefined")
  IN Arr([i \in 1..Len(kept) |-> InsightSummary(kept[i])])
insights(dashboard) ==
  LET tiles == Coalesce(Get(dashboard, "tiles"), Arr(<<>>))
      kept == SelectSeq(tiles.a, LAMBDA tile : ~Nullish(Get(tile, "insight")))
  IN Arr([i \in 1..Len(kept) |-> InsightSummary(kept[i])])

\* insightCount: insights.length
insightCountTiles(dashboard) ==
  Num(Len(Coalesce(Get(dashboard, "tiles"), Arr(<<>>)).a))
insightCount(dashboard) == Num(Len(insights(dashboard).a))

DashboardSummary(dashboard) ==
  Obj(<< <<"id", Get(dashboard, "id")>>,
         <<"name", Coalesce(Get(dashboard, "name"), Null)>>,
         <<"description", Coalesce(Get(dashboard, "description"), Null)>>,
         <<"tags", Coalesce(Get(dashboard, "tags"), Arr(<<>>))>>,
         <<"pinned", Coalesce(Get(dashboard, "pinned"), Bool(FALSE))>>,
         <<"createdAt", Coalesce(Get(dashboard, "created_at"), Null)>>,
         <<"createdBy", createdBy(dashboard)>>,
         <<"lastAccessedAt", Coalesce(Get(dashboard, "last_accessed_at"), Null)>>,
         <<"insightCount", insightCount(dashboard)>>,
         <<"insights", insights(dashboard)>> >>)

\* The body of the loop over one dashboard throws a TypeError when it reads
\* a property of null or undefined, or calls filter on what is no array.
DashboardThrows(dashboard) ==
  \/ Nullish(dashboard)
  \/ LET tiles == Coalesce(Get(dashboard, "tiles"), Arr(<<>>))
     IN \/ ~IsArray(tiles)
        \/ \E i \in 1..Len(tiles.a) : Nullish(tiles.a[i])

\* Reading data.results and iterating it throws when data is null or
\* data.results is not iterable, or when the body throws for an element.
PageThrows(data) ==
  \/ Nullish(data)
  \/ LET results == Coalesce(Get(data, "results"), Arr(<<>>))
     IN \/ ~IsArray(results)
        \/ \E i \in 1..Len(results.a) : DashboardThrows(results.a[i])

\* What one page pushes onto allDashboards, in order.
PageDashboardsReversed(data) ==
  LET results == Coalesce(Get(data, "results"), Arr(<<>>)).a
  IN [i \in 1..Len(results) |-> DashboardSummary(results[Len(results) + 1 - i])]
PageDashboards(data) ==
  LET results == Coalesce(Get(data, "results"), Arr(<<>>)).a
  IN [i \in 1..Len(results) |-> DashboardSummary(results[i])]

(***************************************************************************)
(* get_posthog_insight: the mapping of the upstream insight                *)
(***************************************************************************)
\* function extractQueryKind(query)
extractQueryKindUnchecked(query) ==
  IF ~Truthy(query) THEN Null ELSE Get(query, "kind")
extractQueryKind(query) ==
  IF ~Truthy(query) THEN Null
  ELSE IF TypeOf(query) = "object" /\ HasKey(query, "kind")
       THEN Get(query, "kind")
       ELSE Null

\* events.add(x): a Set keeps the order of first insertion
addAlways(events, x) == Append(events, x)
add(events, x) == IF x \in Range(events) THEN events ELSE Append(events, x)

\* if (x) events.add(x)
addIfTruthy(events, x) == IF Truthy(x) THEN add(events, x) ELSE events

\* for (const series of query.series) { event, then name }
RECURSIVE addSeries(_, _)
addSeries(events, series) ==
  IF series = <<>> THEN events
  ELSE addSeries(addIfTruthy(addIfTruthy(events, Get(Head(series), "event")),
                             Get(Head(series), "name")),
                 Tail(series))

\* The lexemes of a HogQL text, as the pattern /event\s*=\s*'([^']+)'/gi
\* reads them: a word ending in "event" (in any case), white space, "=",
\* a single quote, or anything else.
EndsWithEvent == {"event", "EVENT", "Event", "my_event"}
WhiteSpace == {" ", "\n"}
Quote == "'"

RECURSIVE SkipWhiteSpace(_, _)
SkipWhiteSpace(toks, i) ==
  IF i <= Len(toks) /\ toks[i] \in WhiteSpace
  THEN SkipWhiteSpace(toks, i + 1) ELSE i

\* The index of the first quote at or after i, or Len(toks) + 1.
RECURSIVE NextQuote(_, _)
NextQuote(toks, i) ==
  IF i <= Len(toks) /\ toks[i] # Quote THEN NextQuote(toks, i + 1) ELSE i

\* The index of the last lexeme of a match of the pattern that starts at
\* lexeme i, or 0 when there is none.
MatchEnd(toks, i) ==
  IF toks[i] \notin EndsWithEvent THEN 0
  ELSE LET p == SkipWhiteSpace(toks, i + 1)
       IN IF p > Len(toks) \/ toks[p] # "=" THEN 0
          ELSE LET q == SkipWhiteSpace(toks, p + 1)
               IN IF q > Len(toks) \/ toks[q] # Quote THEN 0
                  ELSE LET r == NextQuote(toks, q + 1)
                       IN IF r > Len(toks) \/ r = q + 1 THEN 0 ELSE r

\* query.query.match(/event\s*=\s*'([^']+)'/gi): the matches, left to right,
\* none overlapping another.
RECURSIVE eventMatchesFrom(_, _)
eventMatchesFrom(toks, i) ==
  IF i > Len(toks) THEN <<>>
  ELSE LET r == MatchEnd(toks, i)
       IN IF r = 0 THEN eventMatchesFrom(toks, i + 1)
          ELSE <<SubSeq(toks, i, r)>> \o eventMatchesFrom(toks, r + 1)

eventMatches(toks) == eventMatchesFrom(toks, 1)

\* match.match(/'([^']+)'/)?.[1]: the text between the first quote that is
\* followed by a non-empty quote-free run and the quote closing it.
RECURSIVE eventNameFrom(_, _)
eventNameFrom(match, a) ==
  IF a > Len(match) THEN Undefined
  ELSE IF match[a] = Quote
          /\ NextQuote(match, a + 1) <= Len(match)
          /\ NextQuote(match, a + 1) > a + 1
       THEN Str(Concat(SubSeq(match, a + 1, NextQuote(match, a + 1) - 1)))
       ELSE eventNameFrom(match, a + 1)

eventName(match) == eventNameFrom(match, 1)

RECURSIVE addMatches(_, _)
addMatches(events, matches) ==
  IF matches = <<>> THEN events
  ELSE addMatches(addIfTruthy(events, eventName(Head(matches))), Tail(matches))

\* for (const event of filters.events) { id, then name }
RECURSIVE addFilterEvents(_, _)
addFilterEvents(events, list) ==
  IF list = <<>> THEN events
  ELSE addFilterEvents(addIfTruthy(addIfTruthy(events, Get(Head(list), "id")),
                                   Get(Head(list), "name")),
                       Tail(list))

\* for (const action of filters.actions) { name }
RECURSIVE addFilterActions(_, _)
addFilterActions(events, list) ==
  IF list = <<>> THEN events
  ELSE addFilterActions(addIfTruthy(events, Get(Head(list), "name")), Tail(list))

\* function extractTrackedEvents(query, filters)
extractTrackedEvents(query, filters) ==
  LET e0 == <<>>
      e1 == IF Truthy(query) /\ Truthy(Get(query, "series"))
               /\ IsArray(Get(query, "series"))
            THEN addSeries(e0, Get(query, "series").a) ELSE e0
      e2 == IF Truthy(query) /\ Truthy(Get(query, "query"))
               /\ TypeOf(Get(query, "query")) = "string"
            THEN addMatches(e1, eventMatches(Lexemes(Get(query, "query")))) ELSE e1
      e3 == IF Truthy(filters) /\ Truthy(Get(filters, "events"))
               /\ IsArray(Get(filters, "events"))
            THEN addFilterEvents(e2, Get(filters, "events").a) ELSE e2
      e4 == IF Truthy(filters) /\ Truthy(Get(filters, "actions"))
               /\ IsArray(Get(filters, "actions"))
            THEN addFilterActions(e3, Get(filters, "actions").a) ELSE e3
  IN Arr(e4)

\* d => ({ id: typeof d === 'number' ? d : d.id,
\*         name: typeof d === 'number' ? null : (d.name ?? null) })
DashboardReferenceObjectOnly(d) ==
  Obj(<< <<"id", Get(d, "id")>>, <<"name", Coalesce(Get(d, "name"), Null)>> >>)
DashboardReference(d) ==
  Obj(<< <<"id", IF TypeOf(d) = "number" THEN d ELSE Get(d, "id")>>,
         <<"name", IF TypeOf(d) = "number" THEN Null
                   ELSE Coalesce(Get(d, "name"), Null)>> >>)

\* (data.dashboards ?? []).map(d => ...)
dashboards(data) ==
  LET refs == Coalesce(Get(data, "dashboards"), Arr(<<>>)).a
  IN Arr([i \in 1..Len(refs) |-> DashboardReference(refs[i])])

InsightDetailResponse(data) ==
  Obj(<< <<"id", Get(data, "id")>>,
         <<"shortId", Coalesce(Get(data, "short_id"), Null)>>,
         <<"name", Coalesce(Get(data, "name"),
                            Coalesce(Get(data, "derived_name"), Null))>>,
         <<"derivedName", Coalesce(Get(data, "derived_name"), Null)>>,
         <<"description", Coalesce(Get(data, "description"), Null)>>,
         <<"tags", Coalesce(Get(data, "tags"), Arr(<<>>))>>,
         <<"favorited", Coalesce(Get(data, "favorited"), Bool(FALSE))>>,
         <<"lastRefresh", Coalesce(Get(data, "last_refresh"), Null)>>,
         <<"lastModifiedAt", Coalesce(Get(data, "last_modified_at"), Null)>>,
         <<"createdAt", Coalesce(Get(data, "created_at"), Null)>>,
         <<"createdBy", createdBy(data)>>,
         <<"query", IF Truthy(Get(data, "query"))
                    THEN JSONstringify(Get(data, "query")) ELSE Null>>,
         <<"filters", IF Truthy(Get(data, "filters"))
                      THEN JSONstringify(Get(data, "filters")) ELSE Null>>,
         <<"hogql", Coalesce(Get(data, "hogql"), Null)>>,
         <<"dashboards", dashboards(data)>>,
         <<"queryKind", extractQueryKind(Get(data, "query"))>>,
         <<"trackedEvents",
           extractTrackedEvents(Get(data, "query"), Get(data, "filters"))>> >>)

\* Building the result throws a TypeError when it reads a property of null
\* or undefined, or maps what is no array.
HasNullish(x) == IsArray(x) /\ \E i \in 1..Len(x.a) : Nullish(x.a[i])

InsightThrows(data) ==
  \/ Nullish(data)
  \/ ~IsArray(Coalesce(Get(data, "dashboards"), Arr(<<>>)))
  \/ HasNullish(Coalesce(Get(data, "dashboards"), Arr(<<>>)))
  \/ HasNullish(Get(Get(data, "query"), "series"))
  \/ HasNullish(Get(Get(data, "filters"), "events"))
  \/ HasNullish(Get(Get(data, "filters"), "actions"))

\* The same for run_posthog_sql.
QueryThrows(data) ==
  \/ Nullish(data)
  \/ ~IsArray(Coalesce(Get(data, "results"), Arr(<<>>)))
  \/ ~Nullish(Get(data, "timings")) /\ ~IsArray(Get(data, "timings"))
  \/ HasNullish(Get(data, "timings"))

(***************************************************************************)
(* Upstream responses the mappings are applied to                          *)
(***************************************************************************)
MaxTimings == 2
MaxTiles == 2
MaxList == 2

Opt(S) == {Undefined, Null} \cup S

\* PostHogAPIResponse
TimingEntries ==
  {MkObj(<< <<"k", Str(k)>>, <<"t", t>> >>) :
     k \in {"query", "other"}, t \in {Num(0), Num(1), Num(42)}}
TimingsValues == Opt({Arr(s) : s \in SeqsUpTo(TimingEntries, MaxTimings)})
Row1 == Arr(<<Str("$pageview"), Num(3)>>)
Row2 == Arr(<<Null, Bool(TRUE)>>)
ResultsValues == Opt({Arr(<<>>), Arr(<<Row1>>), Arr(<<Row2, Row1>>)})
ColumnsValues == Opt({Arr(<<Str("event"), Str("count")>>)})

QueryBody(columns, results, hasMore, limit, offset, cached, timings) ==
  MkObj(<< <<"columns", columns>>, <<"results", results>>,
           <<"hasMore", hasMore>>, <<"limit", limit>>, <<"offset", offset>>,
           <<"is_cached", cached>>, <<"timings", timings>> >>)

QueryBodies ==
  {QueryBody(c, c, c, c, c, c, t) : c \in {Undefined}, t \in TimingsValues}
  \cup {QueryBody(ColumnsValuesOne, Arr(<<Row1>>), Bool(TRUE), Num(100), Num(0),
                  Bool(TRUE), t) :
          ColumnsValuesOne \in {Arr(<<Str("event")>>)}, t \in TimingsValues}
  \cup {QueryBody(c, r, h, l, o, h, t) :
          c \in ColumnsValues, r \in ResultsValues,
          h \in Opt({Bool(TRUE), Bool(FALSE)}), l \in Opt({Num(0), Num(100)}),
          o \in {Undefined, Num(0)},
          t \in {Undefined, Arr(<<MkObj(<< <<"k", Str("query")>>, <<"t", Num(42)>> >>)>>)}}

\* PostHogDashboard and PostHogTile
CreatedByValues ==
  Opt({MkObj(<< <<"id", Num(1)>>, <<"email", e>>, <<"first_name", f>> >>) :
         e \in Opt({Str("ann@example.com")}), f \in Opt({Str("Ann")})})
  \cup {MkObj(<< <<"id", Num(2)>>, <<"email", Str("")>>, <<"first_name", Str("Bo")>> >>)}

TileInsights ==
  {MkObj(<< <<"id", Num(11)>>, <<"short_id", Str("abc")>>, <<"name", Str("Signups")>>,
            <<"derived_name", Str("count of signup")>>,
            <<"description", Str("weekly")>> >>),
   MkObj(<< <<"id", Num(12)>>, <<"derived_name", Str("count of pageview")>> >>),
   MkObj(<< <<"id", Num(13)>>, <<"name", Null>>, <<"short_id", Null>> >>)}
Tiles ==
  {MkObj(<< <<"id", Num(1)>>, <<"insight", i>> >>) : i \in Opt(TileInsights)}
  \cup {MkObj(<< <<"id", Num(2)>>, <<"text", MkObj(<< <<"body", Str("note")>> >>)>> >>)}
TilesValues == Opt({Arr(s) : s \in SeqsUpTo(Tiles, MaxTiles)})

Dashboard(id, name, description, tags, pinned, times, by, tiles, count) ==
  MkObj(<< <<"id", id>>, <<"name", name>>, <<"description", description>>,
           <<"tags", tags>>, <<"pinned", pinned>>, <<"created_at", times>>,
           <<"created_by", by>>, <<"last_accessed_at", times>>,
           <<"tiles", tiles>>, <<"insight_count", count>> >>)

Dashboards ==
  {Dashboard(Num(1), u, u, u, u, u, by, tiles, count) :
     u \in {Undefined}, by \in {Undefined, CHOOSE b \in CreatedByValues : b.k = "object"},
     tiles \in TilesValues, count \in {Undefined, Num(99)}}
  \cup {Dashboard(Num(2), name, description, tags, pinned, times, by, tiles, Undefined) :
          name \in Opt({Str("Growth")}), description \in Opt({Str("KPIs")}),
          tags \in Opt({Arr(<<Str("core")>>)}), pinned \in Opt({Bool(TRUE)}),
          times \in Opt({Str("2024-01-01T00:00:00Z")}), by \in CreatedByValues,
          tiles \in {Undefined}}

\* PostHogInsightResponse
HogQL1 == <<"SELECT", " ", "count()", " ", "FROM", " ", "events", " ", "WHERE", " ",
            "event", " ", "=", " ", "'", "a", "'">>
HogQL2 == <<"event", "=", "'", "b", "'", " ", "OR", " ", "EVENT", "\n", "=",
            "'", "a", "'", " ", "OR", " ", "event", "=", "'", "b", "'">>
HogQL3 == <<"WHERE", " ", "event", " ", "=", " ", "\"", "a", "\"">>
HogQL4 == <<"event", "=", "'", "'", " ", "AND", " ", "my_event", "=",
            "'", "sign", " ", "up", "'">>
HogQL5 == <<"events", ".", "event", " ", "IN", " ", "(", "'", "a", "'", ")">>
HogQL6 == <<"lower", "(", "event", ")", " ", "=", " ", "'", "a", "'", " ", "AND",
            " ", "event", "=", "'", "c">>
HogQLTexts == {HogQL1, HogQL2, HogQL3, HogQL4, HogQL5, HogQL6}

SeriesEntries ==
  {MkObj(<< <<"kind", Str("EventsNode")>>, <<"event", e>>, <<"name", n>> >>) :
     e \in {Null, Str(""), Str("a"), Str("b")}, n \in {Undefined, Str("a")}}
  \ {MkObj(<< <<"kind", Str("EventsNode")>>, <<"event", e>>, <<"name", Str("a")>> >>) :
       e \in {Str("")}}
FilterEvents ==
  {MkObj(<< <<"id", i>>, <<"name", n>>, <<"type", Str("events")>> >>) :
     i \in {Str("a"), Str("c")}, n \in {Undefined, Str("b")}}
  \cup {MkObj(<< <<"name", Str("b")>>, <<"type", Str("events")>> >>)}
FilterActions ==
  {MkObj(<< <<"id", Num(3)>>, <<"name", n>> >>) : n \in {Undefined, Str("a"), Str("d")}}

Query(kind, series, query) ==
  MkObj(<< <<"kind", kind>>, <<"series", series>>, <<"query", query>> >>)
Filters(events, actions) ==
  MkObj(<< <<"insight", Str("TRENDS")>>, <<"events", events>>, <<"actions", actions>> >>)

SampleQuery ==
  Query(Str("TrendsQuery"),
        Arr(<<MkObj(<< <<"event", Str("b")>>, <<"name", Str("a")>> >>)>>), Undefined)
SampleFilters ==
  Filters(Arr(<<MkObj(<< <<"id", Str("a")>>, <<"name", Str("c")>> >>)>>),
          Arr(<<MkObj(<< <<"name", Str("b")>> >>)>>))

QueryValues ==
  {Query(kind, series, text) :
     kind \in {Str("TrendsQuery")},
     series \in {Undefined} \cup {Arr(s) : s \in SeqsUpTo(SeriesEntries, MaxList)},
     text \in {Undefined} \cup {Text(t) : t \in HogQLTexts}}
  \cup {Query(kind, Undefined, Text(HogQL1)) : kind \in Opt({Str("HogQLQuery")})}
  \cup {Undefined, Null, Str("SELECT 1"), Str(""), Num(0), Bool(FALSE),
        Arr(<<Str("kind")>>), Query(Str("DataTableNode"), Null, Num(7))}
FiltersValues ==
  {Filters(events, actions) :
     events \in {Undefined} \cup {Arr(s) : s \in SeqsUpTo(FilterEvents, MaxList)},
     actions \in {Undefined} \cup {Arr(s) : s \in SeqsUpTo(FilterActions, MaxList)}}
  \cup {Undefined, Null, Str("legacy"), MkObj(<<>>)}

DashboardRefs ==
  {Num(5), MkObj(<< <<"id", Num(7)>>, <<"name", Str("X")>> >>),
   MkObj(<< <<"id", Num(8)>> >>), MkObj(<< <<"id", Num(9)>>, <<"name", Null>> >>)}
DashboardRefsValues == Opt({Arr(s) : s \in SeqsUpTo(DashboardRefs, MaxList)})

Insight(shortId, name, derived, rest, tags, favorited, by, query, filters, refs) ==
  MkObj(<< <<"id", Num(42)>>, <<"short_id", shortId>>, <<"name", name>>,
           <<"derived_name", derived>>, <<"description", rest>>, <<"tags", tags>>,
           <<"favorited", favorited>>, <<"last_refresh", rest>>,
           <<"last_modified_at", rest>>, <<"created_at", rest>>,
           <<"created_by", by>>, <<"query", query>>, <<"filters", filters>>,
           <<"hogql", rest>>, <<"dashboards", refs>> >>)

Insights ==
  {Insight(u, u, u, u, u, u, u, query, filters, u) :
     u \in {Undefined}, query \in QueryValues, filters \in {Undefined, SampleFilters}}
  \cup {Insight(u, u, u, u, u, u, u, query, filters, u) :
          u \in {Undefined}, query \in {Undefined, SampleQuery}, filters \in FiltersValues}
  \cup {Insight(u, u, u, u, u, u, u, query, u, refs) :
          u \in {Undefined}, query \in {Undefined, SampleQuery},
          refs \in DashboardRefsValues}
  \cup {Insight(shortId, name, derived, rest, tags, favorited, by, u, u, u) :
          u \in {Undefined}, shortId \in Opt({Str("abc")}), name \in Opt({Str("Signups")}),
          derived \in Opt({Str("count of signup")}), rest \in Opt({Str("2024-01-01")}),
          tags \in {Undefined, Arr(<<Str("core")>>)},
          favorited \in {Undefined, Bool(TRUE)}, by \in CreatedByValues}

(***************************************************************************)
(* The three operations as a state machine.  inv[i] is one invocation:     *)
(* its position (pc), its locals, the requests it has issued, the response *)
(* it is reading and what it returned or threw.  An invocation suspends    *)
(* only in an await: of fetch ("fetch"), of response.text() ("text") and   *)
(* of response.json() ("json").                                            *)
(***************************************************************************)
MaxPages == 3

Slots == {1}

Idle ==
  [pc |-> "idle", op |-> "none", arg |-> Undefined,
   API_KEY |-> Undefined, PROJECT_ID |-> Undefined, HOST |-> Undefined,
   nextUrl |-> Undefined, allDashboards |-> <<>>, requests |-> <<>>,
   response |-> Undefined, errorText |-> Undefined, pages |-> <<>>,
   result |-> Undefined, error |-> Undefined]

\* process.env: a variable is a string or is not set
EnvValues ==
  [POSTHOG_API_KEY : {Undefined, Str(""), Str("phx_1")},
   POSTHOG_PROJECT_ID : {Undefined, Str(""), Str("12345")},
   POSTHOG_HOST : {Undefined, Str("eu.posthog.com")}]

SqlTexts == {Str("SELECT count() FROM events"), Str("SELECT 1")}
InsightIds == {Num(42)}

\* response.status and response.ok
Statuses == {200, 201, 304, 404, 500}
okBelow400(status) == status < 400
ok(status) == status >= 200 /\ status <= 299

\* the text of an error response
ErrorTexts == {Str(""), Str("Not found")}

\* what an await may throw that is no Error object
ThrownValues == {Str("aborted"), Obj(<< <<"code", Num(1)>> >>)}

\* !API_KEY
MissingOnlyIfUnset(x) == x.k = "undefined"
Missing(x) == ~Truthy(x)

\* `PostHog API error: ${response.status} - ${errorText}`
ApiError(status, errorText) ==
  Error(<<"PostHog API error: ", ToString(status), " - ", StrText(errorText)>>)

\* The message each operation's catch block starts with.
Prefix(op) ==
  CASE op = "run_posthog_sql" -> "PostHog query failed: "
    [] op = "list_posthog_dashboards" -> "Failed to list dashboards: "
    [] op = "get_posthog_insight" -> "Failed to get insight: "

\* catch (error) { throw new sdk.UnprocessableContent(prefix +
\*   (error instanceof Error ? error.message : JSON.stringify(error))) }
CatchRethrow(op, error) == error
Catch(op, error) ==
  UnprocessableContent(
    <<Prefix(op)>> \o (IF InstanceOfError(error) THEN error.message
                       ELSE <<StrText(JSONstringify(error))>>))

\* `${x}`: the text a template literal gives for x
TemplateText(x) ==
  CASE x.k = "undefined" -> "undefined"
    [] x.k = "null" -> "null"
    [] x.k = "number" -> ToString(x.n)
    [] x.k = "string" -> StrText(x)

\* headers: { 'Content-Type': 'application/json',
\*            'Authorization': `Bearer ${API_KEY}` }
Headers(API_KEY) ==
  [ContentType |-> "application/json",
   Authorization |-> Text(<<"Bearer ", TemplateText(API_KEY)>>)]

\* `https://${HOST}/api/projects/${PROJECT_ID}/...`
Url(HOST, PROJECT_ID, rest) ==
  Text(<<"https://", TemplateText(HOST), "/api/projects/", TemplateText(PROJECT_ID)>>
       \o rest)

\* fetch(url, {method, headers, body})
Request(method, url, API_KEY, body) ==
  [method |-> method, url |-> url, headers |-> Headers(API_KEY), body |-> body]

\* body: JSON.stringify({ query: { kind: 'HogQLQuery', query: sql } })
QueryRequestBodyBare(sql) == JSONstringify(sql)
QueryRequestBody(sql) ==
  JSONstringify(Obj(<< <<"query",
    Obj(<< <<"kind", Str("HogQLQuery")>>, <<"query", sql>> >>)>> >>))

\* The first request of each operation.
FirstRequest(op, arg, API_KEY, PROJECT_ID, HOST) ==
  CASE op = "run_posthog_sql" ->
         Request("POST", Url(HOST, PROJECT_ID, <<"/query">>), API_KEY,
                 QueryRequestBody(arg))
    [] op = "list_posthog_dashboards" ->
         Request("GET", Url(HOST, PROJECT_ID, <<"/dashboards/">>), API_KEY, Undefined)
    [] op = "get_posthog_insight" ->
         Request("GET", Url(HOST, PROJECT_ID, <<"/insights/", TemplateText(arg), "/">>),
                 API_KEY, Undefined)

\* The start of an operation, up to its first await: the configuration is
\* read from process.env; a missing key or project throws at once, else the
\* first request is issued.
Enter(op, arg) ==
  LET API_KEY == env.POSTHOG_API_KEY
      PROJECT_ID == env.POSTHOG_PROJECT_ID
      HOST == IF Truthy(env.POSTHOG_HOST) THEN env.POSTHOG_HOST
              ELSE Str("us.posthog.com")
      called == [Idle EXCEPT !.op = op, !.arg = arg, !.API_KEY = API_KEY,
                             !.PROJECT_ID = PROJECT_ID, !.HOST = HOST]
      first == FirstRequest(op, arg, API_KEY, PROJECT_ID, HOST)
  IN IF Missing(API_KEY)
     THEN [called EXCEPT !.pc = "thrown",
             !.error = UnprocessableContent(
                         <<"POSTHOG_API_KEY", " environment variable is required">>)]
     ELSE IF Missing(PROJECT_ID)
     THEN [called EXCEPT !.pc = "thrown",
             !.error = UnprocessableContent(
                         <<"POSTHOG_PROJECT_ID", " environment variable is required">>)]
     ELSE [called EXCEPT !.pc = "fetch", !.requests = <<first>>,
             !.nextUrl = IF op = "list_posthog_dashboards" THEN first.url
                         ELSE Undefined]

\* The catch block of the operation of invocation r.
ThrownRetry(r, error) ==
  IF r.pc = "text" /\ Len(r.requests) < MaxPages
  THEN [r EXCEPT !.pc = "fetch", !.response = Undefined,
                 !.requests = Append(r.requests, r.requests[Len(r.requests)])]
  ELSE [r EXCEPT !.pc = "thrown", !.error = Catch(r.op, error)]
Thrown(r, error) == [r EXCEPT !.pc = "thrown", !.error = Catch(r.op, error)]

Init ==
  /\ env \in EnvValues
  /\ inv = [i \in Slots |-> Idle]
  /\ fnIn = Undefined
  /\ fnOut = Undefined

run_posthog_sql(i, sql) ==
  /\ inv[i].pc = "idle"
  /\ inv' = [inv EXCEPT ![i] = Enter("run_posthog_sql", sql)]
  /\ UNCHANGED <<env, fnIn, fnOut>>

list_posthog_dashboards(i) ==
  /\ inv[i].pc = "idle"
  /\ inv' = [inv EXCEPT ![i] = Enter("list_posthog_dashboards", Undefined)]
  /\ UNCHANGED <<env, fnIn, fnOut>>

get_posthog_insight(i, insightId) ==
  /\ inv[i].pc = "idle"
  /\ inv' = [inv EXCEPT ![i] = Enter("get_posthog_insight", insightId)]
  /\ UNCHANGED <<env, fnIn, fnOut>>

\* await fetch(...) rejects: a transport failure, or a thrown value that is
\* no Error object.
FetchRejects(i, error) ==
  /\ inv[i].pc = "fetch"
  /\ inv' = [inv EXCEPT ![i] = Thrown(inv[i], error)]
  /\ UNCHANGED <<env, fnIn, fnOut>>

\* await fetch(...) resolves with a response; if (!response.ok) the text is
\* read, else the JSON body.
FetchResolves(i, status) ==
  /\ inv[i].pc = "fetch"
  /\ inv' = [inv EXCEPT ![i].response = [status |-> status],
                        ![i].pc = IF ok(status) THEN "json" ELSE "text"]
  /\ UNCHANGED <<env, fnIn, fnOut>>

\* await response.text() resolves: throw new Error(`PostHog API error: ...`)
TextResolves(i, errorText) ==
  /\ inv[i].pc = "text"
  /\ inv' = [inv EXCEPT ![i] =
               Thrown([inv[i] EXCEPT !.errorText = errorText],
                      ApiError(inv[i].response.status, errorText))]
  /\ UNCHANGED <<env, fnIn, fnOut>>

\* await response.text() rejects
TextRejects(i, error) ==
  /\ inv[i].pc = "text"
  /\ inv' = [inv EXCEPT ![i] = Thrown(inv[i], error)]
  /\ UNCHANGED <<env, fnIn, fnOut>>

\* await response.json() rejects: the body is no JSON text
JsonRejects(i) ==
  /\ inv[i].pc = "json"
  /\ inv' = [inv EXCEPT ![i] = Thrown(inv[i], SyntaxError)]
  /\ UNCHANGED <<env, fnIn, fnOut>>

\* The rest of run_posthog_sql once the body is parsed.
QueryJsonResolves(i, data) ==
  /\ inv[i].pc = "json" /\ inv[i].op = "run_posthog_sql"
  /\ inv' = [inv EXCEPT ![i] =
               IF QueryThrows(data) THEN Thrown(inv[i], TypeError)
               ELSE [inv[i] EXCEPT !.pc = "returned", !.pages = <<data>>,
                                   !.result = PostHogQueryResponse(data)]]
  /\ UNCHANGED <<env, fnIn, fnOut>>

\* The rest of get_posthog_insight once the body is parsed.
InsightJsonResolves(i, data) ==
  /\ inv[i].pc = "json" /\ inv[i].op = "get_posthog_insight"
  /\ inv' = [inv EXCEPT ![i] =
               IF InsightThrows(data) THEN Thrown(inv[i], TypeError)
               ELSE [inv[i] EXCEPT !.pc = "returned", !.pages = <<data>>,
                                   !.result = InsightDetailResponse(data)]]
  /\ UNCHANGED <<env, fnIn, fnOut>>

\* { dashboards: allDashboards, totalCount: allDashboards.length }
ListDashboardsResponse(allDashboards) ==
  Obj(<< <<"dashboards", Arr(allDashboards)>>,
         <<"totalCount", Num(Len(allDashboards))>> >>)

\* for (const dashboard of data.results ?? []) { ... allDashboards.push(...) }
AccumulateShared(r, data) ==
  LET longest == CHOOSE j \in DOMAIN inv :
                   \A l \in DOMAIN inv :
                     Len(inv[l].allDashboards) <= Len(inv[j].allDashboards)
  IN inv[longest].allDashboards \o PageDashboards(data)
Accumulate(r, data) == r.allDashboards \o PageDashboards(data)

\* fetch(nextUrl, { method: 'GET', headers: {..., Authorization: `Bearer
\* ${API_KEY}`} }) with the API_KEY read when the invocation started
PageRequestRereadsEnv(r, nextUrl) ==
  Request("GET", nextUrl, env.POSTHOG_API_KEY, Undefined)
PageRequest(r, nextUrl) == Request("GET", nextUrl, r.API_KEY, Undefined)

\* while (nextUrl)
whileNextUrlCapped(r, nextUrl) == Truthy(nextUrl) /\ Len(r.requests) < 2
whileNextUrl(r, nextUrl) == Truthy(nextUrl)

\* One turn of the loop of list_posthog_dashboards once the page is parsed:
\* the page's dashboards are pushed, nextUrl = data.next ?? null, and either
\* the next page is requested (while (nextUrl)) or the result is returned.
PageResolvedPrefetch(r, data) ==
  LET allDashboards == Accumulate(r, data)
      nextUrl == Coalesce(Get(data, "next"), Null)
      pushed == [r EXCEPT !.allDashboards = allDashboards, !.nextUrl = nextUrl,
                          !.pages = Append(r.pages, data)]
  IN IF whileNextUrl(r, nextUrl)
     THEN [r EXCEPT !.nextUrl = nextUrl, !.pages = Append(r.pages, data),
             !.pc = "fetch", !.response = Undefined,
             !.requests = Append(r.requests, PageRequest(r, nextUrl))]
     ELSE IF PageThrows(data) THEN Thrown(r, TypeError)
     ELSE [pushed EXCEPT !.pc = "returned",
             !.result = ListDashboardsResponse(allDashboards)]
PageResolved(r, data) ==
  LET allDashboards == Accumulate(r, data)
      nextUrl == Coalesce(Get(data, "next"), Null)
      pushed == [r EXCEPT !.allDashboards = allDashboards, !.nextUrl = nextUrl,
                          !.pages = Append(r.pages, data)]
  IN IF PageThrows(data) THEN Thrown(r, TypeError)
     ELSE IF whileNextUrl(r, nextUrl)
     THEN [pushed EXCEPT !.pc = "fetch", !.response = Undefined,
             !.requests = Append(r.requests, PageRequest(r, nextUrl))]
     ELSE [pushed EXCEPT !.pc = "returned",
             !.result = ListDashboardsResponse(allDashboards)]

\* The pages the upstream may serve to invocation r: results and next are
\* optional; a next link continues the collection of the project on the
\* host asked, over https or over http.  The upstream serves at most
\* MaxPages pages.
NextLinks(r) ==
  {Undefined, Null, Str("")}
  \cup (IF Len(r.requests) < MaxPages
        THEN {Text(<<scheme, TemplateText(r.HOST), "/api/projects/", TemplateText(r.PROJECT_ID),
                     "/dashboards/", "?offset=", ToString(100 * Len(r.requests))>>) :
                scheme \in {"https://", "http://"}}
        ELSE {})

D1 ==
  Dashboard(Num(1), Str("Growth"), Undefined, Arr(<<Str("core")>>), Bool(TRUE),
            Str("2024-01-01T00:00:00Z"),
            MkObj(<< <<"email", Str("ann@example.com")>>, <<"first_name", Str("Ann")>> >>),
            Arr(<<MkObj(<< <<"id", Num(1)>>,
                           <<"insight", MkObj(<< <<"id", Num(11)>>,
                                                 <<"name", Str("Signups")>> >>)>> >>),
                  MkObj(<< <<"id", Num(2)>>, <<"insight", Null>> >>)>>),
            Undefined)
D2 == MkObj(<< <<"id", Num(2)>> >>)
D3 ==
  Dashboard(Num(3), Null, Null, Undefined, Undefined, Undefined,
            MkObj(<< <<"first_name", Str("Bob")>> >>),
            Arr(<<MkObj(<< <<"id", Num(3)>> >>)>>), Undefined)

PageResults ==
  {Undefined, Arr(<<>>), Arr(<<D1>>), Arr(<<D2, D3>>), Arr(<<D3, Null>>)}

PageBodies(r) ==
  {Null}
  \cup {MkObj(<< <<"count", Num(7)>>, <<"next", next>>, <<"results", results>> >>) :
          next \in NextLinks(r), results \in PageResults}

ListJsonResolves(i, data) ==
  /\ inv[i].pc = "json" /\ inv[i].op = "list_posthog_dashboards"
  /\ inv' = [inv EXCEPT ![i] = PageResolved(inv[i], data)]
  /\ UNCHANGED <<env, fnIn, fnOut>>

\* The caller receives the result or the error; the invocation is over.
Complete(i) ==
  /\ inv[i].pc \in {"returned", "thrown"}
  /\ inv' = [inv EXCEPT ![i] = Idle]
  /\ UNCHANGED <<env, fnIn, fnOut>>

\* The bodies the upstream serves to the two single-request operations.
SqlBodies ==
  {Null, MkObj(<<>>),
   QueryBody(Arr(<<Str("event")>>), Arr(<<Row1>>), Bool(TRUE), Num(100), Num(0),
             Bool(TRUE), Arr(<<MkObj(<< <<"k", Str("query")>>, <<"t", Num(42)>> >>)>>))}
InsightBodies ==
  {Null, MkObj(<< <<"id", Num(42)>> >>),
   Insight(Str("abc"), Undefined, Str("count of signup"), Undefined, Undefined,
           Undefined, Undefined, SampleQuery, SampleFilters,
           Arr(<<Num(5), MkObj(<< <<"id", Num(7)>>, <<"name", Str("X")>> >>)>>)),
   Insight(Undefined, Undefined, Undefined, Undefined, Undefined, Undefined,
           Undefined, Undefined, Undefined, Arr(<<Null>>))}

RejectedWith == {FetchFailed} \cup ThrownValues

Next ==
  \/ \E i \in DOMAIN inv, sql \in SqlTexts : run_posthog_sql(i, sql)
  \/ \E i \in DOMAIN inv : list_posthog_dashboards(i)
  \/ \E i \in DOMAIN inv, insightId \in InsightIds : get_posthog_insight(i, insightId)
  \/ \E i \in DOMAIN inv, error \in RejectedWith : FetchRejects(i, error)
  \/ \E i \in DOMAIN inv, status \in Statuses : FetchResolves(i, status)
  \/ \E i \in DOMAIN inv, errorText \in ErrorTexts : TextResolves(i, errorText)
  \/ \E i \in DOMAIN inv, error \in RejectedWith : TextRejects(i, error)
  \/ \E i \in DOMAIN inv : JsonRejects(i)
  \/ \E i \in DOMAIN inv, data \in SqlBodies : QueryJsonResolves(i, data)
  \/ \E i \in DOMAIN inv, data \in InsightBodies : InsightJsonResolves(i, data)
  \/ \E i \in DOMAIN inv : \E data \in PageBodies(inv[i]) : ListJsonResolves(i, data)
  \/ \E i \in DOMAIN inv : Complete(i)

Spec == Init /\ [][Next]_vars

\* An await settles: the promise of fetch, response.text() or
\* response.json() resolves or rejects and the function runs on to its next
\* await or to its end.
Settle ==
  \/ \E i \in DOMAIN inv, error \in RejectedWith : FetchRejects(i, error)
  \/ \E i \in DOMAIN inv, status \in Statuses : FetchResolves(i, status)
  \/ \E i \in DOMAIN inv, errorText \in ErrorTexts : TextResolves(i, errorText)
  \/ \E i \in DOMAIN inv, error \in RejectedWith : TextRejects(i, error)
  \/ \E i \in DOMAIN inv : JsonRejects(i)
  \/ \E i \in DOMAIN inv, data \in SqlBodies : QueryJsonResolves(i, data)
  \/ \E i \in DOMAIN inv, data \in InsightBodies : InsightJsonResolves(i, data)
  \/ \E i \in DOMAIN inv : \E data \in PageBodies(inv[i]) : ListJsonResolves(i, data)

\* The operations against an upstream that answers: every await settles.
FairSpec == Spec /\ WF_vars(Settle)

(***************************************************************************)
(* Two invocations at a time.  The runtime serves calls concurrently: while *)
(* one invocation is suspended in an await another may start and run, so   *)
(* their steps interleave.  The upstream serves each of them pages of its  *)
(* own choice, at most MaxConcPages to an invocation.                      *)
(***************************************************************************)
MaxConcPages == 2

ConcSlots == {1, 2}

ConcEnv ==
  [POSTHOG_API_KEY |-> Str("phx_1"), POSTHOG_PROJECT_ID |-> Str("12345"),
   POSTHOG_HOST |-> Undefined]

ConcInit ==
  /\ env = ConcEnv
  /\ inv = [i \in ConcSlots |-> Idle]
  /\ fnIn = Undefined
  /\ fnOut = Undefined

ConcPageBodies(r) ==
  {MkObj(<< <<"next", next>>, <<"results", results>> >>) :
     next \in {Null} \cup {n \in NextLinks(r) :
                             /\ Len(r.requests) < MaxConcPages
                             /\ n.k = "string" /\ IsText(n) /\ n.t[1] = "https://"},
     results \in {Arr(<<D1>>), Arr(<<D2, D3>>)}}

ConcSqlBodies == {data \in SqlBodies : data.k = "object" /\ data.o # <<>>}
ConcInsightBodies == {data \in InsightBodies : data.k = "object" /\ Len(data.o) = 1}

ConcNext ==
  \/ \E i \in DOMAIN inv : run_posthog_sql(i, Str("SELECT 1"))
  \/ \E i \in DOMAIN inv : list_posthog_dashboards(i)
  \/ \E i \in DOMAIN inv : get_posthog_insight(i, Num(42))
  \/ \E i \in DOMAIN inv : FetchRejects(i, FetchFailed)
  \/ \E i \in DOMAIN inv, status \in {200, 404} : FetchResolves(i, status)
  \/ \E i \in DOMAIN inv : TextResolves(i, Str("Not found"))
  \/ \E i \in DOMAIN inv : TextRejects(i, FetchFailed)
  \/ \E i \in DOMAIN inv : JsonRejects(i)
  \/ \E i \in DOMAIN inv, data \in ConcSqlBodies : QueryJsonResolves(i, data)
  \/ \E i \in DOMAIN inv, data \in ConcInsightBodies : InsightJsonResolves(i, data)
  \/ \E i \in DOMAIN inv : \E data \in ConcPageBodies(inv[i]) : ListJsonResolves(i, data)
  \/ \E i \in DOMAIN inv : Complete(i)

ConcSpec == ConcInit /\ [][ConcNext]_vars

(***************************************************************************)
(* One invocation at a time in a process whose environment changes:        *)
(* process.env is process-wide and may be assigned between any two steps   *)
(* of an invocation, also while it is suspended in an await.               *)
(***************************************************************************)
EnvChoices ==
  [POSTHOG_API_KEY |-> {Undefined, Str("phx_1"), Str("phx_2")},
   POSTHOG_PROJECT_ID |-> {Str("12345"), Str("67890")},
   POSTHOG_HOST |-> {Undefined, Str(""), Str("eu.posthog.com")}]

\* process.env[name] = value, or delete process.env[name]
SetEnv(name, value) ==
  /\ env[name] # value
  /\ env' = [env EXCEPT ![name] = value]
  /\ UNCHANGED <<inv, fnIn, fnOut>>

EnvInit ==
  /\ env = ConcEnv
  /\ inv = [i \in Slots |-> Idle]
  /\ fnIn = Undefined
  /\ fnOut = Undefined

EnvNext ==
  \/ ConcNext
  \/ \E name \in DOMAIN EnvChoices : \E value \in EnvChoices[name] : SetEnv(name, value)

EnvSpec == EnvInit /\ [][EnvNext]_vars

(***************************************************************************)
(* The mappings as a state machine: an upstream body is drawn, and the     *)
(* operation's mapping is applied to it.                                   *)
(***************************************************************************)
MapInit ==
  /\ env = Undefined
  /\ inv = [i \in Slots |-> Idle]
  /\ fnOut = Undefined
  /\ \/ \E data \in QueryBodies : fnIn = [fn |-> "run_posthog_sql", data |-> data]
     \/ \E data \in Dashboards : fnIn = [fn |-> "list_posthog_dashboards", data |-> data]
     \/ \E data \in Insights : fnIn = [fn |-> "get_posthog_insight", data |-> data]

MapQuery ==
  /\ fnIn.fn = "run_posthog_sql" /\ fnOut = Undefined
  /\ fnOut' = IF QueryThrows(fnIn.data) THEN TypeError
              ELSE PostHogQueryResponse(fnIn.data)
  /\ UNCHANGED <<env, inv, fnIn>>

MapDashboard ==
  /\ fnIn.fn = "list_posthog_dashboards" /\ fnOut = Undefined
  /\ fnOut' = IF DashboardThrows(fnIn.data) THEN TypeError
              ELSE DashboardSummary(fnIn.data)
  /\ UNCHANGED <<env, inv, fnIn>>

MapInsight ==
  /\ fnIn.fn = "get_posthog_insight" /\ fnOut = Undefined
  /\ fnOut' = IF InsightThrows(fnIn.data) THEN TypeError
              ELSE InsightDetailResponse(fnIn.data)
  /\ UNCHANGED <<env, inv, fnIn>>

MapNext == MapQuery \/ MapDashboard \/ MapInsight

MapSpec == MapInit /\ [][MapNext]_vars

(***************************************************************************)
(* Properties of the mappings (checked under MapSpec)                      *)
(***************************************************************************)
Mapped(fn) == fnIn.fn = fn /\ fnOut.k = "object"

ListOf(x) == IF x.k = "array" THEN x.a ELSE <<>>

\* A key the serialized result carries: set, and not to undefined.
Present(o, key) == HasKey(o, key) /\ Get(o, key).k # "undefined"

\* C5: every dashboard of a list_posthog_dashboards result has insightCount
\* equal to the length of its insights, whatever its tiles are and whatever
\* count the upstream sends.
C5_InsightCountIsInsightsLength ==
  Mapped("list_posthog_dashboards") =>
    /\ Present(fnOut, "insightCount") /\ Present(fnOut, "insights")
    /\ Get(fnOut, "insightCount") = Num(Len(Get(fnOut, "insights").a))

C5_Witness ==
  /\ Mapped("list_posthog_dashboards")
  /\ Get(fnIn.data, "insight_count") = Num(99)
  /\ Len(ListOf(Get(fnIn.data, "tiles"))) = 2
  /\ Get(fnOut, "insightCount") = Num(1)
  /\ Len(Get(fnOut, "insights").a) = 1

\* The optional upstream fields and the output field each one feeds.
FieldMap(fn) ==
  CASE fn = "run_posthog_sql" ->
         {<<"columns", "columns">>, <<"results", "results">>, <<"hasMore", "hasMore">>,
          <<"limit", "limit">>, <<"offset", "offset">>, <<"is_cached", "isCached">>,
          <<"timings", "executionTime">>}
    [] fn = "list_posthog_dashboards" ->
         {<<"name", "name">>, <<"description", "description">>, <<"tags", "tags">>,
          <<"pinned", "pinned">>, <<"created_at", "createdAt">>,
          <<"created_by", "createdBy">>, <<"last_accessed_at", "lastAccessedAt">>,
          <<"tiles", "insights">>}
    [] fn = "get_posthog_insight" ->
         {<<"short_id", "shortId">>, <<"name", "name">>,
          <<"derived_name", "derivedName">>, <<"description", "description">>,
          <<"tags", "tags">>, <<"favorited", "favorited">>,
          <<"last_refresh", "lastRefresh">>, <<"last_modified_at", "lastModifiedAt">>,
          <<"created_at", "createdAt">>, <<"created_by", "createdBy">>,
          <<"query", "query">>, <<"filters", "filters">>, <<"hogql", "hogql">>,
          <<"dashboards", "dashboards">>, <<"query", "queryKind">>}
SummaryFieldMap ==
  {<<"short_id", "shortId">>, <<"name", "name">>, <<"description", "description">>}
ArrayFields == {"columns", "results", "tags", "insights", "dashboards", "trackedEvents"}
BooleanFields == {"hasMore", "isCached", "pinned", "favorited"}

\* The tiles of a dashboard that carry an insight, in tile order.
TilesWithInsight(dashboard) ==
  LET tiles == Get(dashboard, "tiles")
  IN IF tiles.k = "array"
     THEN SelectSeq(tiles.a, LAMBDA tile : Get(tile, "insight").k = "object")
     ELSE <<>>

\* What the claim as written expects for an absent upstream field.
NullOrEmpty(field) == IF field \in ArrayFields THEN Arr(<<>>) ELSE Null

\* What the code yields for an absent upstream field: false for the boolean
\* fields, the derived name for name when there is one.
DefaultOf(source, field) ==
  CASE field \in ArrayFields -> Arr(<<>>)
    [] field \in BooleanFields -> Bool(FALSE)
    [] field = "name" /\ Get(source, "derived_name").k \notin {"undefined", "null"} ->
         Get(source, "derived_name")
    [] OTHER -> Null

AbsentFieldsAre(expected(_, _)) ==
  /\ \A fn \in {"run_posthog_sql", "list_posthog_dashboards", "get_posthog_insight"} :
       Mapped(fn) =>
         \A f \in FieldMap(fn) :
           ~HasKey(fnIn.data, f[1]) =>
             /\ Present(fnOut, f[2])
             /\ Get(fnOut, f[2]) # Str("")
             /\ Get(fnOut, f[2]) = expected(fnIn.data, f[2])
  /\ Mapped("list_posthog_dashboards") =>
       \A i \in 1..Len(TilesWithInsight(fnIn.data)) :
         \A f \in SummaryFieldMap :
           LET insight == Get(TilesWithInsight(fnIn.data)[i], "insight")
               summary == Get(fnOut, "insights").a[i]
           IN ~HasKey(insight, f[1]) =>
                /\ Present(summary, f[2])
                /\ Get(summary, f[2]) = expected(insight, f[2])
  /\ (Mapped("get_posthog_insight") /\ ~HasKey(fnIn.data, "query")
        /\ ~HasKey(fnIn.data, "filters")) =>
       Get(fnOut, "trackedEvents") = Arr(<<>>)

\* C6 as written: an absent optional upstream field gives an explicit null,
\* or an empty sequence for the array-typed fields.
C6_AbsentIsNullOrEmpty == AbsentFieldsAre(LAMBDA source, field : NullOrEmpty(field))

\* C6 as amended: an absent optional upstream field gives an explicit null,
\* except that array-typed fields give an empty sequence, the boolean fields
\* (hasMore, isCached, pinned, favorited) give false, and name gives the
\* derived name when the upstream sends one.
C6_AbsentIsDefaulted == AbsentFieldsAre(DefaultOf)

C6_Witness ==
  /\ Mapped("get_posthog_insight")
  /\ \A f \in FieldMap("get_posthog_insight") : ~HasKey(fnIn.data, f[1])
  /\ Get(fnOut, "shortId") = Null /\ Get(fnOut, "query") = Null
  /\ Get(fnOut, "tags") = Arr(<<>>) /\ Get(fnOut, "favorited") = Bool(FALSE)

\* The values the pattern captures from each HogQL text, read off the text.
Captured(text) ==
  CASE text = HogQL1 -> <<Str("a")>>
    [] text = HogQL2 -> <<Str("b"), Str("a"), Str("b")>>
    [] text = HogQL3 -> <<>>
    [] text = HogQL4 -> <<Str("sign up")>>
    [] text = HogQL5 -> <<>>
    [] text = HogQL6 -> <<>>

RECURSIVE Flatten(_)
Flatten(ss) == IF ss = <<>> THEN <<>> ELSE Head(ss) \o Flatten(Tail(ss))

\* The candidates in the order of the claim; a candidate is present when it
\* is neither absent, null nor the empty string.
Candidates(query, filters) ==
  LET series == ListOf(Get(query, "series"))
      text == Get(query, "query")
      events == ListOf(Get(filters, "events"))
      actions == ListOf(Get(filters, "actions"))
      all ==
        Flatten([i \in 1..Len(series) |->
                   <<Get(series[i], "event"), Get(series[i], "name")>>])
        \o (IF text.k = "string" /\ "t" \in DOMAIN text THEN Captured(text.t) ELSE <<>>)
        \o Flatten([i \in 1..Len(events) |->
                      <<Get(events[i], "id"), Get(events[i], "name")>>])
        \o Flatten([i \in 1..Len(actions) |-> <<Get(actions[i], "name")>>])
  IN SelectSeq(all, LAMBDA c : c.k \notin {"undefined", "null"} /\ c # Str(""))

\* The first occurrences of the elements of s, in order.
RECURSIVE FirstOccurrences(_)
FirstOccurrences(s) ==
  IF s = <<>> THEN <<>>
  ELSE LET front == SubSeq(s, 1, Len(s) - 1)
       IN IF s[Len(s)] \in Range(front) THEN FirstOccurrences(front)
          ELSE Append(FirstOccurrences(front), s[Len(s)])

\* C7: trackedEvents has no duplicate and is the sequence of the first
\* occurrences of the candidates, visited in the order series (event, name),
\* HogQL captures, filters.events (id, name), filters.actions (name); it is
\* the empty sequence when query and filters are absent.
C7_TrackedEventsAreFirstOccurrences ==
  Mapped("get_posthog_insight") =>
    LET tracked == Get(fnOut, "trackedEvents")
    IN /\ tracked.k = "array"
       /\ \A i, j \in 1..Len(tracked.a) : tracked.a[i] = tracked.a[j] => i = j
       /\ tracked.a = FirstOccurrences(Candidates(Get(fnIn.data, "query"),
                                                  Get(fnIn.data, "filters")))

C7_Witness ==
  /\ Mapped("get_posthog_insight")
  /\ Get(Get(fnIn.data, "query"), "query") = Text(HogQL2)
  /\ Len(ListOf(Get(Get(fnIn.data, "query"), "series"))) = 2
  /\ HasKey(fnIn.data, "filters")
  /\ Get(fnOut, "trackedEvents") = Arr(<<Str("a"), Str("b"), Str("c")>>)

\* C8: the output dashboards has the length and order of the upstream
\* dashboards; a bare integer n gives {id: n, name: null}, an object gives
\* {id: its id, name: its name, or null when it has none}.
C8_DashboardsAreNormalized ==
  Mapped("get_posthog_insight") =>
    LET refs == ListOf(Get(fnIn.data, "dashboards"))
        out == Get(fnOut, "dashboards")
    IN /\ out.k = "array" /\ Len(out.a) = Len(refs)
       /\ \A i \in 1..Len(refs) :
            /\ out.a[i].k = "object"
            /\ [j \in 1..Len(out.a[i].o) |-> out.a[i].o[j][1]] = <<"id", "name">>
            /\ refs[i].k = "number" =>
                 Get(out.a[i], "id") = refs[i] /\ Get(out.a[i], "name") = Null
            /\ refs[i].k = "object" =>
                 /\ Get(out.a[i], "id") = Get(refs[i], "id")
                 /\ Get(out.a[i], "name") =
                      (IF HasKey(refs[i], "name") /\ Get(refs[i], "name") # Null
                       THEN Get(refs[i], "name") ELSE Null)

C8_Witness ==
  /\ Mapped("get_posthog_insight")
  /\ Get(fnIn.data, "dashboards") =
       Arr(<<Num(5), MkObj(<< <<"id", Num(7)>>, <<"name", Str("X")>> >>)>>)
  /\ Get(fnOut, "dashboards") =
       Arr(<<Obj(<< <<"id", Num(5)>>, <<"name", Null>> >>),
             Obj(<< <<"id", Num(7)>>, <<"name", Str("X")>> >>)>>)

\* C9: executionTime is the t of the (first) timings entry whose k is
\* "query", and null when timings is absent or has no such entry.
C9_ExecutionTimeIsQueryTiming ==
  Mapped("run_posthog_sql") =>
    LET timings == ListOf(Get(fnIn.data, "timings"))
        hits == {i \in 1..Len(timings) : Get(timings[i], "k") = Str("query")}
    IN /\ Present(fnOut, "executionTime")
       /\ hits = {} => Get(fnOut, "executionTime") = Null
       /\ hits # {} =>
            Get(fnOut, "executionTime") =
              Get(timings[CHOOSE i \in hits : \A j \in hits : i <= j], "t")

C9_Witness ==
  /\ Mapped("run_posthog_sql")
  /\ Get(fnIn.data, "timings") =
       Arr(<<MkObj(<< <<"k", Str("other")>>, <<"t", Num(1)>> >>),
             MkObj(<< <<"k", Str("query")>>, <<"t", Num(42)>> >>)>>)
  /\ Get(fnOut, "executionTime") = Num(42)

\* The creator of an upstream dashboard or insight: its email if it has one
\* (a string, be it empty), else its first name if it has one, else null.
Creator(x) ==
  LET by == Get(x, "created_by")
      has(key) == by.k = "object" /\ ~(Get(by, key).k \in {"undefined", "null"})
  IN IF has("email") THEN Get(by, "email")
     ELSE IF has("first_name") THEN Get(by, "first_name")
     ELSE Null

\* C17: in the summary of a dashboard and in the detail of an insight,
\* createdBy is the creator's email when the creator has one, otherwise the
\* creator's first name when present, otherwise null; an absent or null
\* creator gives null.
C17_CreatedByIsEmailElseFirstName ==
  \A fn \in {"list_posthog_dashboards", "get_posthog_insight"} :
    Mapped(fn) =>
      /\ Present(fnOut, "createdBy")
      /\ Get(fnOut, "createdBy") = Creator(fnIn.data)

C17_Witness ==
  /\ Mapped("get_posthog_insight")
  /\ Get(Get(fnIn.data, "created_by"), "email") = Str("ann@example.com")
  /\ Get(Get(fnIn.data, "created_by"), "first_name") = Str("Ann")
  /\ Get(fnOut, "createdBy") = Str("ann@example.com")

\* The first of the values that is neither absent nor null, else null.
RECURSIVE FirstNonNull(_)
FirstNonNull(values) ==
  IF values = <<>> THEN Null
  ELSE IF Head(values).k \in {"undefined", "null"} THEN FirstNonNull(Tail(values))
  ELSE Head(values)

\* The summaries expected of a sequence of tiles, tile after tile: a tile
\* whose insight is absent or null gives none.
RECURSIVE Summaries(_)
Summaries(tiles) ==
  IF tiles = <<>> THEN <<>>
  ELSE LET insight == Get(Head(tiles), "insight")
       IN IF insight.k \in {"undefined", "null"} THEN Summaries(Tail(tiles))
          ELSE <<[id |-> Get(insight, "id"),
                  shortId |-> FirstNonNull(<<Get(insight, "short_id")>>),
                  name |-> FirstNonNull(<<Get(insight, "name"),
                                          Get(insight, "derived_name")>>),
                  description |-> FirstNonNull(<<Get(insight, "description")>>)]>>
               \o Summaries(Tail(tiles))

\* The four fields of an insight summary of the output.
SummaryFields(summary) ==
  [id |-> Get(summary, "id"), shortId |-> Get(summary, "shortId"),
   name |-> Get(summary, "name"), description |-> Get(summary, "description")]

\* C18: the insights of a dashboard summary are exactly the tiles of the
\* dashboard that carry a non-null insight, in tile order, each as an object
\* of the four fields id, shortId, name and description, where name is the
\* insight's name, else its derived name, else null; tiles without an
\* insight or with a null insight give no element.
C18_InsightsAreTilesWithInsight ==
  Mapped("list_posthog_dashboards") =>
    LET out == Get(fnOut, "insights")
        expected == Summaries(ListOf(Get(fnIn.data, "tiles")))
    IN /\ out.k = "array" /\ Len(out.a) = Len(expected)
       /\ \A j \in 1..Len(out.a) :
            /\ out.a[j].k = "object"
            /\ {p[1] : p \in Range(out.a[j].o)} =
                 {"id", "shortId", "name", "description"}
            /\ Len(out.a[j].o) = 4
            /\ SummaryFields(out.a[j]) = expected[j]

C18_Witness ==
  /\ Mapped("list_posthog_dashboards")
  /\ Len(ListOf(Get(fnIn.data, "tiles"))) = 2
  /\ Get(ListOf(Get(fnIn.data, "tiles"))[1], "insight") = Null
  /\ Len(Get(fnOut, "insights").a) = 1
  /\ SummaryFields(Get(fnOut, "insights").a[1]) =
       [id |-> Num(12), shortId |-> Null, name |-> Str("count of pageview"),
        description |-> Null]

\* The keys of an upstream value that is an object (no array, no null).
KeysOf(x) == IF x.k = "object" THEN {p[1] : p \in Range(x.o)} ELSE {}

\* C19: queryKind of an insight detail is null when the upstream query is
\* absent or null; it is the value of the query's kind field when the query
\* is an object that carries one; it is null for every other query (an
\* object without kind, an array, a string, a number, a boolean).  Whenever
\* the output query is null, queryKind is null.
C19_QueryKindIsKindOfQueryObject ==
  Mapped("get_posthog_insight") =>
    LET query == Get(fnIn.data, "query")
        queryKind == Get(fnOut, "queryKind")
    IN /\ Present(fnOut, "queryKind")
       /\ query.k \in {"undefined", "null"} => queryKind = Null
       /\ "kind" \in KeysOf(query) =>
            queryKind = (CHOOSE p \in Range(query.o) : p[1] = "kind")[2]
       /\ (~(query.k \in {"undefined", "null"}) /\ "kind" \notin KeysOf(query)) =>
            queryKind = Null
       /\ Get(fnOut, "query") = Null => queryKind = Null

C19_Witness ==
  /\ Mapped("get_posthog_insight")
  /\ Get(fnIn.data, "query").k = "object"
  /\ KeysOf(Get(fnIn.data, "query")) = {"kind", "series", "query"}
  /\ Get(fnOut, "queryKind") = Str("DataTableNode")
  /\ Get(fnOut, "query") =
       Str("{\"kind\":\"DataTableNode\",\"series\":null,\"query\":7}")

(***************************************************************************)
(* Properties of the operations (checked under Spec)                       *)
(***************************************************************************)
Returned(i, op) == inv[i].pc = "returned" /\ inv[i].op = op

IsUnprocessableContent(e) == e.k = "error" /\ e.name = "UnprocessableContent"

\* The ids of the results of the pages an invocation was served, page after
\* page and in the order of each page's results.
ServedIds(pages) ==
  Flatten([p \in 1..Len(pages) |->
             LET results == ListOf(Get(pages[p], "results"))
             IN [j \in 1..Len(results) |-> Get(results[j], "id")]])

\* The pages form a chain: each page but the last was followed to its next
\* link, and the last page has none.
Chained(r) ==
  /\ Len(r.pages) >= 1 /\ Len(r.requests) = Len(r.pages)
  /\ \A p \in 1..(Len(r.pages) - 1) : r.requests[p + 1].url = Get(r.pages[p], "next")
  /\ Get(r.pages[Len(r.pages)], "next") \in {Undefined, Null, Str("")}

\* C1: when the upstream serves N >= 1 pages with status ok, chained by
\* their next links, list_posthog_dashboards returns dashboards whose length
\* is the sum of the lengths of the pages' results, in page order and in
\* each page's order, and totalCount is that sum.
C1_PaginationAggregatesPagesInOrder ==
  \A i \in DOMAIN inv :
    (Returned(i, "list_posthog_dashboards") /\ Chained(inv[i])) =>
      LET out == Get(inv[i].result, "dashboards")
          ids == ServedIds(inv[i].pages)
      IN /\ out.k = "array" /\ Len(out.a) = Len(ids)
         /\ [j \in 1..Len(out.a) |-> Get(out.a[j], "id")] = ids
         /\ Get(inv[i].result, "totalCount") = Num(Len(ids))

C1_Witness ==
  \E i \in DOMAIN inv :
    /\ Returned(i, "list_posthog_dashboards") /\ Chained(inv[i])
    /\ Len(inv[i].pages) = 3
    /\ ServedIds(inv[i].pages) = <<Num(2), Num(3), Num(1), Num(2), Num(3)>>
    /\ Get(inv[i].result, "totalCount") = Num(5)

RequiredVariables == {"POSTHOG_API_KEY", "POSTHOG_PROJECT_ID"}

\* C2: an operation invoked while POSTHOG_API_KEY or POSTHOG_PROJECT_ID is
\* missing (not set, or empty) fails in that very step, having issued no
\* HTTP request, with an UnprocessableContent error whose message names a
\* missing variable and no variable that is set.
C2_MissingConfigFailsBeforeAnyRequest ==
  [][\A i \in DOMAIN inv :
       (inv[i].pc = "idle" /\ inv'[i].pc # "idle") =>
         LET missing == {v \in RequiredVariables : env[v] \in {Undefined, Str("")}}
         IN missing # {} =>
              /\ inv'[i].pc = "thrown"
              /\ inv'[i].requests = <<>>
              /\ IsUnprocessableContent(inv'[i].error)
              /\ \E v \in missing : v \in Range(inv'[i].error.message)
              /\ \A v \in RequiredVariables \ missing :
                   v \notin Range(inv'[i].error.message)]_vars

C2_Witness ==
  \E i \in DOMAIN inv :
    /\ inv[i].pc = "thrown" /\ inv[i].op = "list_posthog_dashboards"
    /\ env.POSTHOG_API_KEY = Str("phx_1") /\ env.POSTHOG_PROJECT_ID = Str("")
    /\ inv[i].requests = <<>>
    /\ "POSTHOG_PROJECT_ID" \in Range(inv[i].error.message)

\* C3: once a response with a status outside 200..299 has arrived, the
\* operation can only read its text and fail: it never returns and issues no
\* further request, and the error it throws after reading the text carries
\* the status code and the text in its message.
C3_NonSuccessStatusFailsWithStatusAndText ==
  \A i \in DOMAIN inv :
    ("status" \in DOMAIN inv[i].response
       /\ ~(inv[i].response.status \in 200..299)) =>
      /\ inv[i].pc \in {"text", "thrown"}
      /\ (inv[i].pc = "thrown" /\ inv[i].errorText.k = "string") =>
           /\ IsUnprocessableContent(inv[i].error)
           /\ ToString(inv[i].response.status) \in Range(inv[i].error.message)
           /\ inv[i].errorText.s \in Range(inv[i].error.message)

C3_Witness ==
  \E i \in DOMAIN inv :
    /\ inv[i].pc = "thrown" /\ inv[i].op = "list_posthog_dashboards"
    /\ Len(inv[i].requests) = 2
    /\ inv[i].response = [status |-> 404]
    /\ inv[i].error.message =
         <<"Failed to list dashboards: ", "PostHog API error: ", "404", " - ",
           "Not found">>

\* C4: whatever makes an invocation fail (missing configuration, a
\* non-success status, a transport failure, an exception while reading or
\* parsing the response or building the result, a thrown value that is no
\* Error object), what reaches the caller is an UnprocessableContent error
\* with a message.
C4_OnlyUnprocessableContentReachesCaller ==
  \A i \in DOMAIN inv :
    /\ inv[i].pc = "thrown" =>
         /\ IsUnprocessableContent(inv[i].error)
         /\ inv[i].error.message # <<>>
         /\ inv[i].result = Undefined
    /\ inv[i].pc # "thrown" => inv[i].error = Undefined

C4_Witness ==
  \E i \in DOMAIN inv :
    /\ inv[i].pc = "thrown" /\ inv[i].op = "get_posthog_insight"
    /\ Len(inv[i].requests) = 1
    /\ inv[i].error =
         UnprocessableContent(<<"Failed to get insight: ", "\"aborted\"">>)

\* C10: every request of every invocation carries Authorization: Bearer
\* <apiKey> and Content-Type: application/json, and goes over https.
C10_EveryRequestIsAuthorizedOverHttps ==
  \A i \in DOMAIN inv :
    \A n \in 1..Len(inv[i].requests) :
      LET request == inv[i].requests[n]
      IN /\ request.headers.Authorization =
              Text(<<"Bearer ", inv[i].API_KEY.s>>)
         /\ request.headers.ContentType = "application/json"
         /\ request.url.t[1] = "https://"

\* The effective host: POSTHOG_HOST, or us.posthog.com when it is not set.
HostOf(r) == r.HOST.s

\* C11: with the configuration present, an invocation of run_posthog_sql has
\* issued exactly one request from its start to its end, whether it returns
\* or throws: a POST to /api/projects/<project>/query whose body is the JSON
\* text {"query":{"kind":"HogQLQuery","query":<sql>}} of its argument; an
\* invocation of get_posthog_insight has issued exactly one request, a GET
\* of /api/projects/<project>/insights/<id>/ without a body.
C11_SingleRequestPerInvocation ==
  \A i \in DOMAIN inv :
    LET r == inv[i]
        configured == ~(r.API_KEY \in {Undefined, Str("")})
                      /\ ~(r.PROJECT_ID \in {Undefined, Str("")})
    IN /\ (r.op = "run_posthog_sql" /\ configured) =>
            /\ Len(r.requests) = 1
            /\ r.requests[1].method = "POST"
            /\ r.requests[1].url =
                 Text(<<"https://", HostOf(r), "/api/projects/", r.PROJECT_ID.s,
                        "/query">>)
            /\ r.requests[1].body =
                 Str("{\"query\":{\"kind\":\"HogQLQuery\",\"query\":\""
                     \o r.arg.s \o "\"}}")
       /\ (r.op = "get_posthog_insight" /\ configured) =>
            /\ Len(r.requests) = 1
            /\ r.requests[1].method = "GET"
            /\ r.requests[1].url =
                 Text(<<"https://", HostOf(r), "/api/projects/", r.PROJECT_ID.s,
                        "/insights/", ToString(r.arg.n), "/">>)
            /\ r.requests[1].body = Undefined

C11_Witness ==
  \E i \in DOMAIN inv :
    /\ inv[i].op = "run_posthog_sql" /\ inv[i].pc = "thrown"
    /\ inv[i].response = [status |-> 500]
    /\ Len(inv[i].requests) = 1
    /\ inv[i].requests[1].body =
         Str("{\"query\":{\"kind\":\"HogQLQuery\",\"query\":\"SELECT count() FROM events\"}}")

\* An invocation is suspended in an await.
Awaiting(r) == r.pc \in {"fetch", "text", "json"}

\* C12: no operation retries.  A step in which a request of an invocation
\* fails (the fetch rejects, the text of a non-success response is read or
\* cannot be read, the body cannot be parsed or mapped) ends the invocation
\* in an error without issuing a request: when page k fails exactly k
\* requests were issued, k - 1 pages were accumulated and nothing is
\* returned.  After a non-success status the invocation can only fail, and
\* after it has failed it does nothing more until the caller has the error.
C12_NoRetryNoPartialResult ==
  [][\A i \in DOMAIN inv :
       /\ (Awaiting(inv[i]) /\ inv'[i].pc = "thrown") =>
            /\ inv'[i].requests = inv[i].requests
            /\ Len(inv'[i].requests) = Len(inv'[i].pages) + 1
            /\ inv'[i].result = Undefined
            /\ IsUnprocessableContent(inv'[i].error)
       /\ inv[i].pc = "text" => inv'[i].pc \in {"text", "thrown"}
       /\ inv[i].pc = "fetch" => inv'[i].requests = inv[i].requests
       /\ inv[i].pc = "thrown" =>
            \/ inv'[i] = inv[i]
            \/ inv'[i].pc = "idle" /\ inv'[i].requests = <<>>]_vars

C12_Witness ==
  \E i \in DOMAIN inv :
    /\ inv[i].op = "list_posthog_dashboards" /\ inv[i].pc = "thrown"
    /\ Len(inv[i].requests) = 2 /\ Len(inv[i].pages) = 1
    /\ Len(inv[i].allDashboards) = 2
    /\ inv[i].response = [status |-> 500]
    /\ inv[i].result = Undefined

\* The ids of a sequence of dashboards.
Ids(list) == [j \in 1..Len(list) |-> Get(list[j], "id")]

\* C13: within an invocation of list_posthog_dashboards at most one page
\* request is unanswered.  Whenever n + 1 requests have been issued, the
\* first n pages have been received and all their results are in the
\* accumulator, in page order; request p + 1 asks for the next link of page
\* p; when the invocation returns no request is unanswered.
C13_OnePageInFlight ==
  \A i \in DOMAIN inv :
    (inv[i].op = "list_posthog_dashboards" /\ inv[i].requests # <<>>) =>
      /\ Len(inv[i].requests) - Len(inv[i].pages) \in {0, 1}
      /\ Awaiting(inv[i]) => Len(inv[i].requests) = Len(inv[i].pages) + 1
      /\ inv[i].pc = "returned" => Len(inv[i].requests) = Len(inv[i].pages)
      /\ inv[i].pc # "thrown" => Ids(inv[i].allDashboards) = ServedIds(inv[i].pages)
      /\ \A p \in 1..(Len(inv[i].requests) - 1) :
           inv[i].requests[p + 1].url = Get(inv[i].pages[p], "next")

C13_Witness ==
  \E i \in DOMAIN inv :
    /\ inv[i].op = "list_posthog_dashboards" /\ inv[i].pc = "fetch"
    /\ Len(inv[i].requests) = 3 /\ Len(inv[i].pages) = 2
    /\ Ids(inv[i].allDashboards) = <<Num(1), Num(2), Num(3)>>

\* The next link of the page an invocation parsed last.
LastNext(r) == Get(r.pages[Len(r.pages)], "next")

\* The step of invocation i that ends a turn of the pagination loop with a
\* page parsed and pushed: it requests another page exactly if continues
\* holds of the page's next link, and that request asks for the link; else
\* it returns.
LoopTurns(i, continues) ==
  (/\ inv[i].op = "list_posthog_dashboards" /\ inv[i].pc = "json"
   /\ inv'[i].pc \in {"fetch", "returned"}) =>
     /\ Len(inv'[i].pages) = Len(inv[i].pages) + 1
     /\ inv'[i].pc = "fetch" <=> continues
     /\ inv'[i].pc = "fetch" =>
          /\ Len(inv'[i].requests) = Len(inv[i].requests) + 1
          /\ inv'[i].requests[Len(inv'[i].requests)].url = LastNext(inv'[i])

\* An invocation of list_posthog_dashboards that has started ends.
ListingEnds ==
  \A i \in Slots :
    (inv[i].op = "list_posthog_dashboards" /\ Awaiting(inv[i]))
      ~> (inv[i].pc \in {"returned", "thrown"})

\* C14 as stated: after a successful page the loop issues another request
\* if and only if the page's next is non-null (neither null nor absent),
\* whatever the number of pages so far, and an invocation whose upstream
\* eventually serves a last page or a failure ends.
C14_ContinuesIffNextNonNull ==
  /\ [][\A i \in DOMAIN inv : LoopTurns(i, ~Nullish(LastNext(inv'[i])))]_vars
  /\ ListingEnds

\* C14 as the code has it: after a successful page the loop issues another
\* request if and only if the page's next is a non-empty string; it returns
\* when next is null, absent or the empty string.  There is no limit on the
\* number of pages: while each page carries a non-empty next the invocation
\* goes on requesting, and it ends once the upstream serves a page without
\* one or a failure.
C14_ContinuesIffNextNonEmpty ==
  /\ [][\A i \in DOMAIN inv :
          LoopTurns(i, ~(LastNext(inv'[i]) \in {Undefined, Null, Str("")}))]_vars
  /\ ListingEnds

C14_Witness ==
  \E i \in DOMAIN inv :
    /\ Returned(i, "list_posthog_dashboards")
    /\ Len(inv[i].requests) = MaxPages /\ Len(inv[i].pages) = MaxPages
    /\ LastNext(inv[i]) = Str("")

\* What an invocation holds and hands to its caller, computed from the
\* responses that invocation itself was served: the accumulator is the
\* dashboards of its own pages, the result is the mapping of its own
\* bodies, and the error after a non-success status carries its own status
\* and text.
OwnOutcome(r) ==
  LET own == Flatten([p \in 1..Len(r.pages) |-> PageDashboards(r.pages[p])])
  IN /\ (r.op = "list_posthog_dashboards" /\ r.pc # "thrown") =>
          r.allDashboards = own
     /\ (r.op = "list_posthog_dashboards" /\ r.pc = "returned") =>
          r.result = Obj(<< <<"dashboards", Arr(own)>>,
                            <<"totalCount", Num(Len(own))>> >>)
     /\ (r.op = "run_posthog_sql" /\ r.pc = "returned") =>
          r.result = PostHogQueryResponse(r.pages[1])
     /\ (r.op = "get_posthog_insight" /\ r.pc = "returned") =>
          r.result = InsightDetailResponse(r.pages[1])
     /\ (r.pc = "thrown" /\ r.errorText.k = "string") =>
          r.error.message = <<Prefix(r.op), "PostHog API error: ",
                              ToString(r.response.status), " - ", r.errorText.s>>

\* C15: invocations share no mutable state.  In every interleaving of two
\* invocations a step changes one invocation only and leaves the
\* environment alone, and what each invocation accumulates, returns or
\* throws is what its own upstream responses give: no dashboard of a page
\* served to one invocation is in the accumulator, the dashboards or the
\* totalCount of the other.
C15_InvocationsAreIsolated ==
  [][/\ env' = env
     /\ \A i, j \in DOMAIN inv :
          i # j => (inv'[i] = inv[i] \/ inv'[j] = inv[j])
     /\ \A i \in DOMAIN inv : OwnOutcome(inv'[i])]_vars

C15_Witness ==
  /\ Returned(1, "list_posthog_dashboards")
  /\ Len(inv[1].pages) = 2
  /\ Ids(inv[1].allDashboards) = <<Num(1), Num(1)>>
  /\ Get(inv[1].result, "totalCount") = Num(2)
  /\ inv[2].op = "list_posthog_dashboards" /\ inv[2].pc = "fetch"
  /\ Ids(inv[2].allDashboards) = <<Num(2), Num(3)>>

\* The Authorization header of request n of an invocation.
AuthorizationOf(r, n) == r.requests[n].headers.Authorization

\* C16: the configuration is read from the environment when an invocation
\* starts and is fixed for that invocation.  The step that starts an
\* invocation takes the API key and the project id the environment holds at
\* that step, and the host it holds or us.posthog.com when it holds none,
\* and its first request carries them; a later step of the invocation keeps
\* them whatever the environment holds by then, and every request it adds
\* carries the bearer token of the first request.
C16_ConfigurationIsReadOncePerInvocation ==
  [][\A i \in DOMAIN inv :
       /\ (inv[i].pc = "idle" /\ inv'[i].pc # "idle") =>
            LET host == IF env.POSTHOG_HOST \in {Undefined, Str("")}
                        THEN "us.posthog.com" ELSE env.POSTHOG_HOST.s
            IN /\ inv'[i].API_KEY = env.POSTHOG_API_KEY
               /\ inv'[i].PROJECT_ID = env.POSTHOG_PROJECT_ID
               /\ inv'[i].HOST = Str(host)
               /\ inv'[i].requests # <<>> =>
                    /\ AuthorizationOf(inv'[i], 1) =
                         Text(<<"Bearer ", env.POSTHOG_API_KEY.s>>)
                    /\ SubSeq(inv'[i].requests[1].url.t, 1, 4) =
                         <<"https://", host, "/api/projects/",
                           env.POSTHOG_PROJECT_ID.s>>
       /\ (inv[i].pc # "idle" /\ inv'[i].pc # "idle") =>
            /\ inv'[i].API_KEY = inv[i].API_KEY
            /\ inv'[i].PROJECT_ID = inv[i].PROJECT_ID
            /\ inv'[i].HOST = inv[i].HOST
            /\ \A n \in 2..Len(inv'[i].requests) :
                 AuthorizationOf(inv'[i], n) = AuthorizationOf(inv'[i], 1)]_vars

C16_Witness ==
  \E i \in DOMAIN inv :
    /\ inv[i].op = "list_posthog_dashboards" /\ inv[i].pc = "fetch"
    /\ Len(inv[i].requests) = 2
    /\ env.POSTHOG_API_KEY = Str("phx_2")
    /\ AuthorizationOf(inv[i], 1) = Text(<<"Bearer ", "phx_1">>)
    /\ AuthorizationOf(inv[i], 2) = Text(<<"Bearer ", "phx_1">>)
    /\ inv[i].HOST = Str("us.posthog.com")

====
